---- MODULE Spec2Model ----
(***************************************************************************)
(* Model of rhyme_finder.js: the groupBy helper (a Map accumulation, the   *)
(* default Array.prototype.sort of the Map's keys, and the plain object    *)
(* the sorted keys are written into) and the saved-words list.             *)
(*                                                                         *)
(* JavaScript strings are sequences of UTF-16 code units.  Numbers are     *)
(* kept in tenths (the number 1.5 is n = 15), which covers the integers    *)
(* and one decimal place, all that the key universe below uses.            *)
(***************************************************************************)
EXTENDS Integers, Sequences, FiniteSets

VARIABLES objects, property, pc, idx, groupedObjects, sortedKeys, kdx, result,
          returned, pass, mode, args, prev,
          loaded, savedWordsArray, savedWords, clicks

groupVars == <<objects, property, pc, idx, groupedObjects, sortedKeys, kdx,
               result, returned, pass, mode, args, prev>>
savedVars == <<loaded, savedWordsArray, savedWords, clicks>>
vars == <<objects, property, pc, idx, groupedObjects, sortedKeys, kdx, result,
          returned, pass, mode, args, prev,
          loaded, savedWordsArray, savedWords, clicks>>

----------------------------------------------------------------------------
(* Bounds *)

\* longest input array handed to groupBy
MaxLen == 3
\* most clicks on a Save button
MaxSaves == 4

----------------------------------------------------------------------------
(* JavaScript values *)

Undefined == [t |-> "undefined", n |-> 0, s |-> <<>>]
Num(tenths) == [t |-> "number", n |-> tenths, s |-> <<>>]
Str(units) == [t |-> "string", n |-> 0, s |-> units]

\* "undefined"
UndefinedText == <<117, 110, 100, 101, 102, 105, 110, 101, 100>>
\* "(none)"
NoneText == <<40, 110, 111, 110, 101, 41>>
\* ", "
CommaSpace == <<44, 32>>

RECURSIVE DigitsOf(_)
\* decimal digits of a non-negative integer, most significant first
DigitsOf(m) ==
    IF m < 10 THEN <<48 + m>> ELSE DigitsOf(m \div 10) \o <<48 + (m % 10)>>

\* Number::toString of the number tenths/10
NumberToString(tenths) ==
    LET a == IF tenths < 0 THEN -tenths ELSE tenths
        sign == IF tenths < 0 THEN <<45>> ELSE <<>>
        frac == IF a % 10 = 0 THEN <<>> ELSE <<46, 48 + (a % 10)>>
    IN  sign \o DigitsOf(a \div 10) \o frac

\* ToString, as applied by the default sort and by ToPropertyKey
ToString(v) ==
    CASE v.t = "undefined" -> UndefinedText
      [] v.t = "number" -> NumberToString(v.n)
      [] v.t = "string" -> v.s

RECURSIVE StrLess(_, _)
\* a < b on strings: code unit by code unit, a proper prefix is smaller
StrLess(a, b) ==
    IF b = <<>> THEN FALSE
    ELSE IF a = <<>> THEN TRUE
    ELSE IF a[1] # b[1] THEN a[1] < b[1]
    ELSE StrLess(Tail(a), Tail(b))

\* a faulty SortCompare: undefined is compared by its string form like any
\* other key
SortCompareAsStrings(x, y) ==
    IF StrLess(ToString(x), ToString(y)) THEN -1
    ELSE IF StrLess(ToString(y), ToString(x)) THEN 1
    ELSE 0

\* SortCompare(x, y) with no comparefn: undefined after everything else,
\* otherwise the two ToString values compared as strings
SortCompare(x, y) ==
    IF x.t = "undefined" /\ y.t = "undefined" THEN 0
    ELSE IF x.t = "undefined" THEN 1
    ELSE IF y.t = "undefined" THEN -1
    ELSE IF StrLess(ToString(x), ToString(y)) THEN -1
    ELSE IF StrLess(ToString(y), ToString(x)) THEN 1
    ELSE 0

RECURSIVE InsertSorted(_, _)
\* x put behind every element that does not sort after it
InsertSorted(sorted, x) ==
    IF sorted = <<>> THEN <<x>>
    ELSE IF SortCompare(sorted[1], x) <= 0
         THEN <<sorted[1]>> \o InsertSorted(Tail(sorted), x)
         ELSE <<x>> \o sorted

RECURSIVE Sort(_)
\* Array.prototype.sort() without a compare function; the sort is stable
Sort(keys) ==
    IF keys = <<>> THEN <<>>
    ELSE InsertSorted(Sort(SubSeq(keys, 1, Len(keys) - 1)), keys[Len(keys)])

----------------------------------------------------------------------------
(* Records, key rules, the Map and the result object *)

\* an element of the input array: null, an object without the grouping
\* field, or an object holding a value in it; id is the object's identity
NullRecord(i) == [id |-> i, kind |-> "null", val |-> Undefined]
BareRecord(i) == [id |-> i, kind |-> "noField", val |-> Undefined]
FieldRecord(i, v) == [id |-> i, kind |-> "field", val |-> v]

\* the key values records carry: 1, 2, 10, -1, 1.5, "1", "z", "undefined"
KeyValues ==
    {Num(10), Num(20), Num(100), Num(-10), Num(15),
     Str(<<49>>), Str(<<122>>), Str(UndefinedText)}

\* what a record can be, whatever its identity
Shapes ==
    {NullRecord(0), BareRecord(0)} \cup {FieldRecord(0, v) : v \in KeyValues}

\* the arrays groupBy is called with: element i is some record of identity i
Inputs ==
    UNION {{[i \in 1..n |-> [c[i] EXCEPT !.id = i]] : c \in [1..n -> Shapes]} :
              n \in 0..MaxLen}

\* the second argument: a property name, or a caller's function that reads
\* the field and dereferences it, so that it throws where the field is absent
PropertyName == [isFunction |-> FALSE, strict |-> FALSE]
CallerFunction == [isFunction |-> TRUE, strict |-> TRUE]
\* the arrow function groupBy makes of a property name: obj => obj[propName]
FieldAccessor == [isFunction |-> TRUE, strict |-> FALSE]

\* typeof property !== 'function' : wrap the name, keep a function
Normalize(p) == IF ~p.isFunction THEN FieldAccessor ELSE p

\* does property(object) throw?  obj[propName] throws a TypeError on null;
\* the caller's function also throws on an object without the field
Throws(p, object) ==
    \/ object.kind = "null"
    \/ p.strict /\ object.kind = "noField"

\* the value of property(object) when it does not throw: a missing field
\* reads as undefined
Apply(p, object) == IF object.kind = "field" THEN object.val ELSE Undefined

\* Map.prototype.has: keys are compared by SameValueZero, which tells the
\* number 2 from the string "2"
MapHas(map, key) == \E i \in 1..Len(map) : map[i].key = key

\* Map.prototype.set of a key the map does not hold: a new last entry
MapSet(map, key, value) == Append(map, [key |-> key, value |-> value])

MapGet(map, key) ==
    LET i == CHOOSE i \in 1..Len(map) : map[i].key = key IN map[i].value

\* a faulty push: unshift, the object is put in front of its group
MapPushFront(map, key, object) ==
    [i \in 1..Len(map) |->
        IF map[i].key = key
        THEN [key |-> key, value |-> <<object>> \o map[i].value]
        ELSE map[i]]

\* groupedObjects.get(groupName).push(object)
MapPush(map, key, object) ==
    [i \in 1..Len(map) |->
        IF map[i].key = key
        THEN [key |-> key, value |-> Append(map[i].value, object)]
        ELSE map[i]]

\* the body of the for-of loop for one object whose key is groupName
Accumulate(map, groupName, object) ==
    LET ensured == IF ~MapHas(map, groupName)
                   THEN MapSet(map, groupName, <<>>)
                   ELSE map
    IN  MapPush(ensured, groupName, object)

\* Array.from(groupedObjects.keys()): the keys in insertion order
MapKeys(map) == [i \in 1..Len(map) |-> map[i].key]

\* result[key] = value on a plain object kept as its properties in creation
\* order: the key is turned into a string; an existing property keeps its
\* place and takes the new value, a new property is created last
SetProperty(obj, key, value) ==
    LET name == ToString(key) IN
    IF \E i \in 1..Len(obj) : obj[i].name = name
    THEN [i \in 1..Len(obj) |->
             IF obj[i].name = name THEN [name |-> name, value |-> value]
             ELSE obj[i]]
    ELSE Append(obj, [name |-> name, value |-> value])

\* "4294967295", the first integer that is no array index
MaxIndexText == <<52, 50, 57, 52, 57, 54, 55, 50, 57, 53>>

IsDigit(u) == u \in 48..57

RECURSIVE DigitsValue(_)
DigitsValue(units) ==
    IF units = <<>> THEN 0
    ELSE 10 * DigitsValue(SubSeq(units, 1, Len(units) - 1))
         + (units[Len(units)] - 48)

\* an array index: the canonical decimal form of an integer in 0 .. 2^32 - 2
IsArrayIndex(name) ==
    /\ Len(name) \in 1..10
    /\ \A i \in 1..Len(name) : IsDigit(name[i])
    /\ Len(name) = 1 \/ name[1] # 48
    /\ Len(name) = 10 => StrLess(name, MaxIndexText)

RECURSIVE SelectSeq2(_, _)
\* the entries of obj whose name is (want = TRUE) or is not an array index
SelectSeq2(obj, want) ==
    IF obj = <<>> THEN <<>>
    ELSE IF IsArrayIndex(obj[1].name) = want
         THEN <<obj[1]>> \o SelectSeq2(Tail(obj), want)
         ELSE SelectSeq2(Tail(obj), want)

RECURSIVE InsertByIndex(_, _)
InsertByIndex(sorted, e) ==
    IF sorted = <<>> THEN <<e>>
    ELSE IF DigitsValue(sorted[1].name) < DigitsValue(e.name)
         THEN <<sorted[1]>> \o InsertByIndex(Tail(sorted), e)
         ELSE <<e>> \o sorted

RECURSIVE ByIndex(_)
ByIndex(es) ==
    IF es = <<>> THEN <<>>
    ELSE InsertByIndex(ByIndex(Tail(es)), es[1])

\* Object.entries(obj): array-index names first, in ascending numeric order,
\* then the other names in the order the properties were created
Entries(obj) == ByIndex(SelectSeq2(obj, TRUE)) \o SelectSeq2(obj, FALSE)

RECURSIVE Flatten(_)
\* the groups of a result, in enumeration order, laid end to end
Flatten(entries) ==
    IF entries = <<>> THEN <<>>
    ELSE entries[1].value \o Flatten(Tail(entries))

----------------------------------------------------------------------------
(* groupBy, one step of the function per action *)

NoOutcome == [status |-> "none", value |-> <<>>, at |-> 0]

\* a faulty entry: the Map is shared by all calls instead of made anew
EnterKeepingMap ==
    /\ pc = "entry"
    /\ property' = Normalize(property)
    /\ idx' = 1
    /\ pc' = "loop"
    /\ UNCHANGED <<objects, groupedObjects, sortedKeys, kdx, result, returned,
                   pass, mode, args, prev>>

\* lines 17-22: the property argument is made a function and the Map is new
Enter ==
    /\ pc = "entry"
    /\ property' = Normalize(property)
    /\ groupedObjects' = <<>>
    /\ idx' = 1
    /\ pc' = "loop"
    /\ UNCHANGED <<objects, sortedKeys, kdx, result, returned, pass, mode,
                   args, prev>>

\* a faulty loop: an exception of property(object) is caught and the record
\* is skipped
IterateSkipping ==
    /\ pc = "loop"
    /\ idx <= Len(objects)
    /\ LET object == objects[idx] IN
       groupedObjects' =
           IF Throws(property, object) THEN groupedObjects
           ELSE Accumulate(groupedObjects, Apply(property, object), object)
    /\ idx' = idx + 1
    /\ UNCHANGED <<objects, property, pc, sortedKeys, kdx, result, returned,
                   pass, mode, args, prev>>

\* lines 23-30: one turn of the for-of loop; an exception of property(object)
\* is not caught and leaves the function
Iterate ==
    /\ pc = "loop"
    /\ idx <= Len(objects)
    /\ LET object == objects[idx] IN
       IF Throws(property, object)
       THEN /\ pc' = "thrown"
            /\ returned' = [status |-> "thrown", value |-> <<>>, at |-> idx]
            /\ UNCHANGED <<groupedObjects, idx>>
       ELSE /\ groupedObjects' =
                  Accumulate(groupedObjects, Apply(property, object), object)
            /\ idx' = idx + 1
            /\ UNCHANGED <<pc, returned>>
    /\ UNCHANGED <<objects, property, sortedKeys, kdx, result, pass, mode,
                   args, prev>>

\* lines 33-34: the empty result object and the sorted array of the keys
SortKeys ==
    /\ pc = "loop"
    /\ idx > Len(objects)
    /\ result' = <<>>
    /\ sortedKeys' = Sort(MapKeys(groupedObjects))
    /\ kdx' = 1
    /\ pc' = "build"
    /\ UNCHANGED <<objects, property, idx, groupedObjects, returned, pass,
                   mode, args, prev>>

\* lines 34-36: result[key] = groupedObjects.get(key) for the next key
Assign ==
    /\ pc = "build"
    /\ kdx <= Len(sortedKeys)
    /\ result' = SetProperty(result, sortedKeys[kdx],
                             MapGet(groupedObjects, sortedKeys[kdx]))
    /\ kdx' = kdx + 1
    /\ UNCHANGED <<objects, property, pc, idx, groupedObjects, sortedKeys,
                   returned, pass, mode, args, prev>>

\* line 37
Return ==
    /\ pc = "build"
    /\ kdx > Len(sortedKeys)
    /\ returned' = [status |-> "value", value |-> result, at |-> 0]
    /\ pc' = "returned"
    /\ UNCHANGED <<objects, property, idx, groupedObjects, sortedKeys, kdx,
                   result, pass, mode, args, prev>>

\* the caller calls groupBy a second time with the same two arguments
CallAgain ==
    /\ pc \in {"returned", "thrown"}
    /\ pass = 1
    /\ prev' = returned
    /\ returned' = NoOutcome
    /\ property' = args.property
    /\ pass' = 2
    /\ mode' = "again"
    /\ pc' = "entry"
    /\ UNCHANGED <<objects, idx, groupedObjects, sortedKeys, kdx, result,
                   args>>

\* the caller lays the groups of the result end to end, in the order it
\* enumerates them, and calls groupBy on that array with the same rule
Regroup ==
    /\ pc = "returned"
    /\ pass = 1
    /\ prev' = returned
    /\ returned' = NoOutcome
    /\ objects' = Flatten(Entries(returned.value))
    /\ args' = [args EXCEPT !.objects = Flatten(Entries(returned.value))]
    /\ property' = args.property
    /\ pass' = 2
    /\ mode' = "regroup"
    /\ pc' = "entry"
    /\ UNCHANGED <<idx, groupedObjects, sortedKeys, kdx, result>>

----------------------------------------------------------------------------
(* The saved words *)

\* the words the Save buttons of a result list pass: "cat", "hat", "at"
Words == {<<99, 97, 116>>, <<104, 97, 116>>, <<97, 116>>}

\* line 119: savedWordsArray.push(word)
PushWord(array, word) == Append(array, word)

\* a faulty display: the first saved word is appended to "(none)" instead of
\* replacing it
ShowWordNoReset(array, span, word) ==
    IF Len(array) = 0 THEN <<NoneText>>
    ELSE IF Len(array) = 1 THEN Append(span, ToString(word))
    ELSE Append(span, CommaSpace \o ToString(word))

\* lines 109-118: the child text nodes of the #saved_words span after the
\* call, from the length of the array before it
ShowWord(array, span, word) ==
    IF Len(array) = 0 THEN <<NoneText>>
    ELSE IF Len(array) = 1 THEN <<ToString(word)>>
    ELSE Append(span, CommaSpace \o ToString(word))

RECURSIVE TextContent(_)
\* what the span displays: its text nodes one after the other
TextContent(span) ==
    IF span = <<>> THEN <<>> ELSE span[1] \o TextContent(Tail(span))

\* line 122: the script's own call, with no argument
ScriptLoad ==
    /\ ~loaded
    /\ savedWords' = ShowWord(savedWordsArray, savedWords, Undefined)
    /\ savedWordsArray' = PushWord(savedWordsArray, Undefined)
    /\ loaded' = TRUE
    /\ UNCHANGED clicks

\* lines 140, 157: a click on the Save button of the word w
SaveClick(w) ==
    /\ loaded
    /\ Len(clicks) < MaxSaves
    /\ savedWords' = ShowWord(savedWordsArray, savedWords, Str(w))
    /\ savedWordsArray' = PushWord(savedWordsArray, Str(w))
    /\ clicks' = Append(clicks, w)
    /\ UNCHANGED loaded

----------------------------------------------------------------------------
(* Specifications *)

GroupInit ==
    /\ objects \in Inputs
    /\ property \in {PropertyName, CallerFunction}
    /\ args = [objects |-> objects, property |-> property]
    /\ pc = "entry"
    /\ idx = 0
    /\ groupedObjects = <<>>
    /\ sortedKeys = <<>>
    /\ kdx = 0
    /\ result = <<>>
    /\ returned = NoOutcome
    /\ prev = NoOutcome
    /\ pass = 1
    /\ mode = "first"

\* no call of groupBy under way
GroupIdle ==
    /\ objects = <<>>
    /\ property = PropertyName
    /\ args = [objects |-> <<>>, property |-> PropertyName]
    /\ pc = "idle"
    /\ idx = 0
    /\ groupedObjects = <<>>
    /\ sortedKeys = <<>>
    /\ kdx = 0
    /\ result = <<>>
    /\ returned = NoOutcome
    /\ prev = NoOutcome
    /\ pass = 1
    /\ mode = "first"

\* the page before the script runs: the array of line 49 is empty and the
\* span holds whatever the page's markup put there
SavedInit ==
    /\ loaded = FALSE
    /\ savedWordsArray = <<>>
    /\ savedWords \in {<<>>, <<NoneText>>, <<UndefinedText>>}
    /\ clicks = <<>>

\* the script has run and nothing was saved
SavedLoaded ==
    /\ loaded = TRUE
    /\ savedWordsArray = <<Undefined>>
    /\ savedWords = <<NoneText>>
    /\ clicks = <<>>

Init == GroupInit /\ SavedLoaded

Next ==
    \/ Enter /\ UNCHANGED savedVars
    \/ Iterate /\ UNCHANGED savedVars
    \/ SortKeys /\ UNCHANGED savedVars
    \/ Assign /\ UNCHANGED savedVars
    \/ Return /\ UNCHANGED savedVars
    \/ CallAgain /\ UNCHANGED savedVars
    \/ Regroup /\ UNCHANGED savedVars

Spec == Init /\ [][Next]_vars

SavedWordsInit == GroupIdle /\ SavedInit

SavedWordsNext ==
    \/ ScriptLoad /\ UNCHANGED groupVars
    \/ \E w \in Words : SaveClick(w) /\ UNCHANGED groupVars

SavedWordsSpec == SavedWordsInit /\ [][SavedWordsNext]_vars

----------------------------------------------------------------------------
(* Vocabulary of the properties *)

\* the groups of the value a finished call returned, as a caller iterating
\* the result sees them
Groups == Entries(returned.value)

\* the key the rule derives for a record of the current input
KeyOf(object) == Apply(Normalize(args.property), object)

\* how many times the record occurs in a sequence of records
Count(seq, object) == Cardinality({i \in 1..Len(seq) : seq[i] = object})

\* the position of a record in the input
PositionOf(object) == CHOOSE i \in 1..Len(objects) : objects[i] = object

\* the records of the input whose derived key is key, in input order
RECURSIVE WithKey(_, _)
WithKey(seq, key) ==
    IF seq = <<>> THEN <<>>
    ELSE IF KeyOf(seq[1]) = key THEN <<seq[1]>> \o WithKey(Tail(seq), key)
    ELSE WithKey(Tail(seq), key)

RECURSIVE Join(_)
\* the words separated by ", "
Join(ws) ==
    IF Len(ws) = 1 THEN ws[1]
    ELSE Join(SubSeq(ws, 1, Len(ws) - 1)) \o CommaSpace \o ws[Len(ws)]

----------------------------------------------------------------------------
(* Properties *)

\* C1 Completeness: the groups of a returned result hold as many records as
\* the input, and every input record occurs in them exactly once.
C1_Completeness ==
    pc = "returned" =>
        /\ Len(Flatten(Groups)) = Len(objects)
        /\ \A i \in 1..Len(objects) : Count(Flatten(Groups), objects[i]) = 1

\* C2 Key partition correctness: every input record is in the group whose
\* key is the record's derived key, and in no other group.
C2_KeyPartition ==
    pc = "returned" =>
        \A i \in 1..Len(objects) : \A g \in 1..Len(Groups) :
            (Count(Groups[g].value, objects[i]) > 0)
                <=> (Groups[g].name = ToString(KeyOf(objects[i])))

\* C3 Sort order: the keys of the groups, in the order the result enumerates
\* them, never decrease: numerically between number keys, lexicographically
\* between string keys.
C3_SortOrder ==
    pc = "returned" =>
        \A g \in 1..Len(Groups) : \A h \in 1..Len(Groups) :
            g < h =>
                LET a == KeyOf(Groups[g].value[1])
                    b == KeyOf(Groups[h].value[1])
                IN  /\ (a.t = "number" /\ b.t = "number") => a.n <= b.n
                    /\ (a.t = "string" /\ b.t = "string") => ~StrLess(b.s, a.s)

\* C4 Stability: in every group of a returned result the records are input
\* records and stand in the order they have in the input.
C4_Stability ==
    pc = "returned" =>
        \A g \in 1..Len(Groups) :
            LET group == Groups[g].value IN
            /\ \A a \in 1..Len(group) : Count(objects, group[a]) = 1
            /\ \A a \in 1..Len(group) : \A b \in 1..Len(group) :
                   a < b => PositionOf(group[a]) < PositionOf(group[b])

C4_Witness ==
    /\ pc = "returned"
    /\ mode = "regroup"
    /\ \E g \in 1..Len(Groups) : Len(Groups[g].value) >= 2
    /\ Len(Groups) >= 2

\* C5 Merging of equivalent keys: two records whose keys differ but have
\* the same string form end up together in the one group of that name.
C5_MergedKeys ==
    pc = "returned" =>
        \A i \in 1..Len(objects) : \A j \in 1..Len(objects) :
            (/\ KeyOf(objects[i]) # KeyOf(objects[j])
             /\ ToString(KeyOf(objects[i])) = ToString(KeyOf(objects[j])))
            => \E g \in 1..Len(Groups) :
                   /\ Groups[g].name = ToString(KeyOf(objects[i]))
                   /\ Count(Groups[g].value, objects[i]) = 1
                   /\ Count(Groups[g].value, objects[j]) = 1

\* the input has a record whose key is undefined
HasMissingKey == \E i \in 1..Len(objects) : KeyOf(objects[i]) = Undefined

\* the place of the group named "undefined" among the groups
MissingGroup == CHOOSE g \in 1..Len(Groups) : Groups[g].name = UndefinedText

\* a missing key raises nothing, and its records are one group of their own
MissingKeyGrouped ==
    /\ (pc = "thrown" /\ ~args.property.isFunction)
           => objects[returned.at].kind = "null"
    /\ (pc = "returned" /\ HasMissingKey) =>
           /\ \E g \in 1..Len(Groups) : Groups[g].name = UndefinedText
           /\ Groups[MissingGroup].value = WithKey(objects, Undefined)

\* C6 as stated: the group of the missing key stands among the other groups
\* where the string ordering of the keys puts "undefined".
C6_MissingKeySortedAsOthers ==
    /\ MissingKeyGrouped
    /\ (pc = "returned" /\ HasMissingKey) =>
           \A g \in 1..Len(Groups) :
               (g # MissingGroup /\ ~IsArrayIndex(Groups[g].name)) =>
                   ((g < MissingGroup)
                        <=> StrLess(Groups[g].name, UndefinedText))

\* C6 amended: a missing key raises nothing and its records are one group
\* named "undefined"; the sort puts the undefined key behind every other
\* key, so the group is the last the result enumerates unless some record
\* has the string "undefined" for its key; the group then stands where that
\* string sorts among the names that are no array index.
C6_MissingKeyLast ==
    /\ MissingKeyGrouped
    /\ (pc \in {"build", "returned"} /\ HasMissingKey) =>
           sortedKeys[Len(sortedKeys)] = Undefined
    /\ (/\ pc = "returned"
        /\ HasMissingKey
        /\ \A i \in 1..Len(objects) : KeyOf(objects[i]) # Str(UndefinedText))
           => MissingGroup = Len(Groups)
    /\ (/\ pc = "returned"
        /\ HasMissingKey
        /\ \E i \in 1..Len(objects) : KeyOf(objects[i]) = Str(UndefinedText))
           => \A g \in 1..Len(Groups) :
                  (g # MissingGroup /\ ~IsArrayIndex(Groups[g].name)) =>
                      ((g < MissingGroup)
                           <=> StrLess(Groups[g].name, UndefinedText))

C6_Witness ==
    /\ pc = "returned"
    /\ HasMissingKey
    /\ \A i \in 1..Len(objects) : KeyOf(objects[i]) # Str(UndefinedText)
    /\ Len(Groups) = 3
    /\ MissingGroup = 3
    /\ Groups[2].name = <<122>>
    /\ Groups[1].name = <<49>>

\* C7 Derivation failure: an exception of the key rule leaves groupBy at the
\* first record that raises, with no result; a result is returned only when
\* no record raises.
C7_DerivationFailure ==
    /\ pc = "thrown" =>
           /\ returned.status = "thrown"
           /\ returned.value = <<>>
           /\ returned.at = idx
           /\ Throws(property, objects[idx])
           /\ \A i \in 1..(idx - 1) : ~Throws(property, objects[i])
    /\ returned.status = "value" =>
           \A i \in 1..Len(objects) : ~Throws(property, objects[i])
    /\ pc \in {"loop", "build", "returned"} =>
           \A i \in 1..(idx - 1) : ~Throws(property, objects[i])

C7_Witness ==
    /\ pc = "thrown"
    /\ returned.at = 3
    /\ Len(groupedObjects) = 2
    /\ returned.value = <<>>

\* C8 Idempotence of regrouping: grouping the groups laid end to end gives
\* the same keys in the same order with the same records.
C8_RegroupIdempotent ==
    (mode = "regroup" /\ pc \in {"returned", "thrown"}) =>
        /\ returned.status = "value"
        /\ Groups = Entries(prev.value)

C10_SavedWordsDisplay ==
    loaded =>
        /\ Len(savedWordsArray) = Len(clicks) + 1
        /\ savedWordsArray[1] = Undefined
        /\ \A i \in 1..Len(clicks) : savedWordsArray[i + 1] = Str(clicks[i])
        /\ clicks = <<>> => TextContent(savedWords) = NoneText
        /\ clicks # <<>> => TextContent(savedWords) = Join(clicks)

C10_Witness ==
    /\ loaded
    /\ Len(clicks) = 3
    /\ clicks[1] = clicks[3]
    /\ clicks[1] # clicks[2]

====
